---- MODULE Spec2Model ----
(***************************************************************************)
(* A model of the COVID-19 data pipeline of risk-calc-data-push:           *)
(*   - the partition resolver s3_pull_latest_date and the download steps   *)
(*     that call it (src/data_pipeline_functions.py);                      *)
(*   - the storage writer df_to_s3, the vaccination pushes and             *)
(*     oxford_smooth_and_push;                                             *)
(*   - the remote source adapter get_json and its callers                  *)
(*     pull_states_data and country_by_lineage, and the main loop over     *)
(*     countries and lineages;                                             *)
(*   - the series aligner and the lineage aggregator of                    *)
(*     src/risk_calculator_data.py and that script's main;                 *)
(*   - the series smoothers, including smooth_data of                      *)
(*     src/risk_calculator_cases_deaths.py.                                *)
(* The program is single threaded: one operation runs at a time.           *)
(***************************************************************************)
EXTENDS Integers, Sequences, FiniteSets, TLC

(***************************************************************************)
(* Bounds of the model.                                                    *)
(***************************************************************************)
\* Days between date.min and today; datetime.date.today() - timedelta(days=n)
\* raises OverflowError for n beyond it (about 740000 in reality).
DaysSinceMinDate == 11
\* Objects left in the bucket by earlier runs.
MaxObjects == 2
\* Days of the date spine of a wide table.
SpineDays == 3
\* Rows of a group of the Oxford data and of a state's frame.
MaxLen == 3
\* The largest cumulative count and the largest prevalence value.
MaxCount == 1
\* Rows and columns of a table, rows of a JSON document's results.
MaxRows == 1
MaxCols == 1
\* Direct df_to_s3 calls of one script run.
MaxWrites == 2

(***************************************************************************)
(* Program constants.                                                      *)
(***************************************************************************)
\* "It tries this for 10 days": the literal 10 of the loop and of the check after it.
maxLookbackDays == 10
\* MaxKeys of list_objects_v2.
MaxKeys == 1000

\* Python's None.
None == [none |-> TRUE]

Min(a, b) == IF a <= b THEN a ELSE b

(***************************************************************************)
(* Object storage.  A key is {path}/{date}/{name}; the date is kept as the  *)
(* number of days before today.                                            *)
(***************************************************************************)
VariantsPath == "interim/variants"
OxfordDownloadPath == "interim/oxford_all"
\* save_paths of download_vaccine_data, in order.
save_paths == <<"daily", "weekly">>
VaccinePath(s) == IF s = "daily" THEN "raw/vaccinations/daily" ELSE "raw/vaccinations/weekly"

DownloadPaths == {VariantsPath, OxfordDownloadPath, VaccinePath("daily"), VaccinePath("weekly")}
ObjectNames == {"f1"}
DayOffsets == 0..DaysSinceMinDate
Keys == [path : DownloadPaths, day : DayOffsets, name : ObjectNames]

RECURSIVE SubsetsUpTo(_, _)
SubsetsUpTo(S, n) ==
    IF n = 0 THEN {{}}
    ELSE LET P == SubsetsUpTo(S, n - 1) IN P \cup {s \cup {k} : s \in P, k \in S}

VARIABLES
    store,      \* the bucket: the set of keys that hold an object
    proc,       \* "running", or "terminated" by an uncaught exception
    dstep,      \* the download step in progress, or "none"
    vidx,       \* download_vaccine_data: position in save_paths
    rpc,        \* s3_pull_latest_date: "idle", "loop", "returned", "raised"
    path,       \* s3_pull_latest_date: its argument
    num_days,   \* s3_pull_latest_date: local
    keycount,   \* s3_pull_latest_date: local
    response,   \* s3_pull_latest_date: local, then the caller's
    probed,     \* history: the day offsets listed by the current resolver call
    downloaded, \* history: the keys the current download step passed to download_file
    wop,        \* the writing operation of this run, or "none"
    wpc,        \* its position: "idle", "loop", "returned", "raised"
    widx,       \* vaccination pushes: position in locations
    wraise,     \* what raised in the writing operation, or "none"
    writes,     \* history: the df_to_s3 calls, [df, key]
    puts,       \* history: the put_object calls, [Key, Status]
    fop,        \* the fetching operation of this run, or "none"
    fpc,        \* its position: "idle", "loop", "returned", "raised"
    fidx,       \* pull_states_data: position in states_abbr
    fraise,     \* the exception that ended the fetching operation, or "none"
    states_dfs,     \* pull_states_data: abbr -> rows of its frame
    no_data_states, \* pull_states_data: the list of states without data
    country_df,     \* country_by_lineage: the frame it returns, or None
    last_get_json,  \* history: the most recent get_json call, [gets, raised, value]
    pulled,         \* history: pull_states_data's fetches, [abbr, rows]
    mpc,            \* the pipeline's main: "none", or its position
    cidx,           \* the pipeline's main: position in input_countries
    all_lineages,   \* the pipeline's main: the lineages of the current country
    lidx,           \* the pipeline's main: position in all_lineages
    processed,      \* history: the [country, lineage] iterations that completed
    kpc,            \* risk_calculator_data's main: "none", or its position
    kidx,           \* get_strains_world: position in the location list
    all_data,       \* get_strains_world: the table assembled so far
    all_data_new,   \* get_variant_data's result, or None
    kraise,         \* the exception that ended risk_calculator_data's main, or "none"
    applied,        \* the data transformation applied to input, or "none"
    input,          \* its argument
    output          \* its result, or None

resolverVars == <<rpc, path, num_days, keycount, response, probed>>
downloadVars == <<proc, dstep, vidx, downloaded>>
readVars == <<dstep, vidx, rpc, path, num_days, keycount, response, probed, downloaded>>
writeVars == <<wop, wpc, widx, wraise, writes, puts>>
fetchVars ==
    <<fop, fpc, fidx, fraise, states_dfs, no_data_states, country_df, last_get_json, pulled>>
mainVars == <<mpc, cidx, all_lineages, lidx, processed>>
riskVars == <<kpc, kidx, all_data, all_data_new, kraise>>
pureVars == <<applied, input, output>>
otherVars == <<mainVars, riskVars, pureVars>>

vars == <<store, proc, readVars, writeVars, fetchVars, otherVars>>

(***************************************************************************)
(* s3_client.list_objects_v2(Bucket, Prefix = path/date, MaxKeys = 1000)   *)
(***************************************************************************)
Listing(p, d) == {k \in store : k.path = p /\ k.day = d}

list_objects_v2(p, d) ==
    LET found == Listing(p, d)
    IN  [KeyCount |-> Min(Cardinality(found), MaxKeys), Contents |-> found]

(***************************************************************************)
(* s3_pull_latest_date                                                     *)
(***************************************************************************)
\* A slip a maintainer could make when "fixing" the bound: keep looking while
\* fewer than 10 days were tried.
LoopCondWrongBound(kc, nd) == kc = 0 \/ nd < maxLookbackDays

\* while keycount==0 or num_days >= 10:
LoopCond(kc, nd) == kc = 0 \/ nd >= maxLookbackDays

\* The call: num_days = 0, keycount = 0, then the loop.
CallResolver(p) ==
    /\ rpc' = "loop"
    /\ path' = p
    /\ num_days' = 0
    /\ keycount' = 0
    /\ response' = None
    /\ probed' = <<>>

\* One iteration of the loop.  The date subtraction raises OverflowError once
\* num_days exceeds the days since date.min; nothing catches it.
Probe ==
    /\ proc = "running"
    /\ rpc = "loop"
    /\ LoopCond(keycount, num_days)
    /\ IF num_days > DaysSinceMinDate
         THEN /\ rpc' = "raised"
              /\ proc' = "terminated"
              /\ UNCHANGED <<num_days, keycount, response, probed>>
         ELSE LET r == list_objects_v2(path, num_days)
              IN  /\ response' = r
                  /\ keycount' = r.KeyCount
                  /\ num_days' = num_days + 1
                  /\ probed' = Append(probed, num_days)
                  /\ UNCHANGED <<rpc, proc>>
    /\ UNCHANGED <<store, path, dstep, vidx, downloaded, writeVars, fetchVars, otherVars>>

\* The loop condition is false: the check after the loop, and the return.
ResolverReturn ==
    /\ proc = "running"
    /\ rpc = "loop"
    /\ ~LoopCond(keycount, num_days)
    /\ IF num_days >= maxLookbackDays
         THEN response' = None /\ keycount' = 0
         ELSE UNCHANGED <<response, keycount>>
    /\ rpc' = "returned"
    /\ UNCHANGED <<store, path, num_days, probed, downloadVars, writeVars, fetchVars, otherVars>>

(***************************************************************************)
(* download_variants_data, download_vaccine_data, download_oxford_data     *)
(***************************************************************************)
DownloadSteps == {"download_variants_data", "download_vaccine_data", "download_oxford_data"}

StepPath(step, i) ==
    IF step = "download_variants_data" THEN VariantsPath
    ELSE IF step = "download_oxford_data" THEN OxfordDownloadPath
    ELSE VaccinePath(save_paths[i])

\* The caller starts a download step, which calls the resolver.
StartDownload(step) ==
    /\ proc = "running"
    /\ dstep = "none"
    /\ dstep' = step
    /\ vidx' = IF step = "download_vaccine_data" THEN 1 ELSE 0
    /\ downloaded' = {}
    /\ CallResolver(StepPath(step, 1))
    /\ UNCHANGED <<store, proc, writeVars, fetchVars, otherVars>>

\* After the resolver returned: all_files = [key["Key"] for key in response['Contents']]
\* raises TypeError on None; otherwise every listed file is downloaded.
DownloadFiles ==
    /\ proc = "running"
    /\ dstep # "none"
    /\ rpc = "returned"
    /\ IF response = None
         THEN /\ proc' = "terminated"
              /\ UNCHANGED <<dstep, vidx, downloaded, resolverVars>>
         ELSE /\ downloaded' = downloaded \cup response.Contents
              /\ proc' = proc
              /\ IF dstep = "download_vaccine_data" /\ vidx < Len(save_paths)
                   THEN /\ vidx' = vidx + 1
                        /\ dstep' = dstep
                        /\ CallResolver(StepPath(dstep, vidx + 1))
                   ELSE /\ dstep' = "none"
                        /\ vidx' = 0
                        /\ rpc' = "idle"
                        /\ UNCHANGED <<path, num_days, keycount, response, probed>>
    /\ UNCHANGED <<store, writeVars, fetchVars, otherVars>>


(***************************************************************************)
(* Tables.  A pandas DataFrame is seen by its shape.                       *)
(***************************************************************************)
Tables == [rows : 0..MaxRows, cols : 0..MaxCols]
\* What the callers of df_to_s3 build: a frame that has rows has columns.
CallerTables == {t \in Tables : t.rows > 0 => t.cols > 0}
\* pd.read_csv: the header gives at least one column.
CsvTables == {t \in Tables : t.cols > 0}

\* A slip: emptiness taken to mean that no axis has entries.
DfEmptyBothAxes(df) == df.rows = 0 /\ df.cols = 0

\* df.empty: true when any axis has length 0.
DfEmpty(df) == df.rows = 0 \/ df.cols = 0

(***************************************************************************)
(* df_to_s3 (the same code in all three source files)                      *)
(***************************************************************************)
\* if status == 200
HTTP_OK == 200
\* The status a put_object call returns: success, or a non-success code.
PutStatuses == {HTTP_OK, 500}

\* A slip: treating the non-success status as an error to raise.
StatusCheckRaises(status) == IF status = HTTP_OK THEN "return" ELSE "raise"

\* Both branches of the status check only print.
StatusCheck(status) == IF status = HTTP_OK THEN "return" ELSE "return"

\* The put_object calls one df_to_s3 call issues, and how the call ends.
df_to_s3(df, key, status) ==
    IF ~DfEmpty(df)
      THEN [puts |-> <<[Key |-> key, Status |-> status]>>, outcome |-> StatusCheck(status)]
      ELSE [puts |-> <<>>, outcome |-> "return"]

\* The objects the bucket holds after the puts: those that succeeded.
Stored(ps) == {ps[i].Key : i \in {j \in 1..Len(ps) : ps[j].Status = HTTP_OK}}

\* save_full_path = "{}/{}/{}".format(folder_path, date_today, name)
DatedKey(folder_path, name) == [path |-> folder_path, day |-> 0, name |-> name]

\* The fixed keys of the risk calculator scripts: no date in the key.
RiskCalcFolder == "processed/risk-calculator-data"
UndatedKey(name) == [path |-> RiskCalcFolder, day |-> 0 - 1, name |-> name]
RiskCalcKeys ==
    {UndatedKey("all_countries_regular_variants.csv"),
     UndatedKey("all_countries_galphabet_variants.csv"),
     UndatedKey("USStates_confirmed_cases_deaths.csv")}

\* A script's direct call df_to_s3(df, s3_client, bucket_name, save_full_path).
WriteTable(df, key, status) ==
    /\ proc = "running"
    /\ wop \in {"none", "direct"}
    /\ wpc # "raised"
    /\ Len(writes) < MaxWrites
    /\ DfEmpty(df) => status = HTTP_OK
    /\ LET r == df_to_s3(df, key, status)
       IN  /\ writes' = Append(writes, [df |-> df, key |-> key])
           /\ puts' = puts \o r.puts
           /\ store' = store \cup Stored(r.puts)
           /\ wop' = "direct"
           /\ IF r.outcome = "raise"
                THEN wpc' = "raised" /\ wraise' = "df_to_s3" /\ proc' = "terminated"
                ELSE wpc' = "returned" /\ UNCHANGED <<wraise, proc>>
    /\ UNCHANGED <<widx, readVars, fetchVars, otherVars>>

(***************************************************************************)
(* vaccination_daily_push, vaccination_weekly_push                         *)
(***************************************************************************)
PushSteps == {"vaccination_daily_push", "vaccination_weekly_push"}

\* locations.keys(), in order.
locations(step) ==
    IF step = "vaccination_daily_push"
      THEN <<"countries", "age_group", "manufacturers", "us_states">>
      ELSE <<"locations">>

\* The default folder_path of each push.
folder_path(step) ==
    IF step = "vaccination_daily_push" THEN "raw/vaccinations/daily"
    ELSE "raw/vaccinations/weekly"

StartPush(step) ==
    /\ proc = "running"
    /\ wop = "none"
    /\ wop' = step
    /\ wpc' = "loop"
    /\ widx' = 1
    /\ UNCHANGED <<store, proc, wraise, writes, puts, readVars, fetchVars, otherVars>>

\* One iteration of the loop over locations: read_csv, then df_to_s3.
\* pd.read_csv raises when the URL cannot be read; nothing catches it.
PushIteration ==
    /\ proc = "running"
    /\ wop \in PushSteps
    /\ wpc = "loop"
    /\ \/ /\ wpc' = "raised"
          /\ wraise' = "read_csv"
          /\ proc' = "terminated"
          /\ UNCHANGED <<store, wop, widx, writes, puts>>
       \/ \E df \in CsvTables, status \in PutStatuses :
            /\ DfEmpty(df) => status = HTTP_OK
            /\ LET key == DatedKey(folder_path(wop), locations(wop)[widx])
                   r == df_to_s3(df, key, status)
               IN  /\ writes' = Append(writes, [df |-> df, key |-> key])
                   /\ puts' = puts \o r.puts
                   /\ store' = store \cup Stored(r.puts)
                   /\ IF r.outcome = "raise"
                        THEN /\ wpc' = "raised"
                             /\ wraise' = "df_to_s3"
                             /\ proc' = "terminated"
                             /\ widx' = widx
                        ELSE /\ widx' = widx + 1
                             /\ wpc' = IF widx = Len(locations(wop)) THEN "returned" ELSE "loop"
                             /\ UNCHANGED <<wraise, proc>>
            /\ wop' = wop
    /\ UNCHANGED <<readVars, fetchVars, otherVars>>

(***************************************************************************)
(* oxford_smooth_and_push                                                  *)
(***************************************************************************)
\* The default folder_path of oxford_smooth_and_push.
OxfordPushPath == "processed/oxford_all"

\* files.keys(), in order.
files == <<"states", "national">>

\* The call up to the loop: read_csv, the split by Jurisdiction and the smoothing
\* of each group.  pd.read_csv raises when the URL cannot be read.
StartOxfordPush ==
    /\ proc = "running"
    /\ wop = "none"
    /\ wop' = "oxford_smooth_and_push"
    /\ \/ /\ wpc' = "raised"
          /\ wraise' = "read_csv"
          /\ proc' = "terminated"
          /\ widx' = widx
       \/ /\ wpc' = "loop"
          /\ widx' = 1
          /\ UNCHANGED <<wraise, proc>>
    /\ UNCHANGED <<store, writes, puts, readVars, fetchVars, otherVars>>

\* One iteration of the loop over files: the key, then df_to_s3.  A part of the
\* data without rows gives an empty frame.
OxfordPushIteration ==
    /\ proc = "running"
    /\ wop = "oxford_smooth_and_push"
    /\ wpc = "loop"
    /\ \E df \in CallerTables, status \in PutStatuses :
         /\ DfEmpty(df) => status = HTTP_OK
         /\ LET key == DatedKey(OxfordPushPath, files[widx])
                r == df_to_s3(df, key, status)
            IN  /\ writes' = Append(writes, [df |-> df, key |-> key])
                /\ puts' = puts \o r.puts
                /\ store' = store \cup Stored(r.puts)
                /\ IF r.outcome = "raise"
                     THEN /\ wpc' = "raised"
                          /\ wraise' = "df_to_s3"
                          /\ proc' = "terminated"
                          /\ widx' = widx
                     ELSE /\ widx' = widx + 1
                          /\ wpc' = IF widx = Len(files) THEN "returned" ELSE "loop"
                          /\ UNCHANGED <<wraise, proc>>
    /\ wop' = wop
    /\ UNCHANGED <<readVars, fetchVars, otherVars>>

(***************************************************************************)
(* get_json                                                                *)
(***************************************************************************)
\* What the endpoint answers to one urlopen: a 2xx answer whose body is a JSON
\* document with some results or is malformed, a non-2xx status (HTTPError),
\* or no answer at all (URLError: connection refused, timeout).
Responses ==
    {[kind |-> "ok", rows |-> n] : n \in 0..MaxRows}
      \cup {[kind |-> k, rows |-> 0] : k \in {"malformed", "http_error", "url_error"}}

TransportFailures == {"malformed", "http_error", "url_error"}

\* r1 answers the urlopen of the try block, r2 the urlopen of the with block.
\* Only HTTPError is caught, and only around the first urlopen.
get_json(r1, r2) ==
    IF r1.kind = "http_error"
      THEN [gets |-> <<r1>>, raised |-> "none", value |-> None]
    ELSE IF r1.kind = "url_error"
      THEN [gets |-> <<r1>>, raised |-> "URLError", value |-> None]
    ELSE IF r2.kind = "http_error"
      THEN [gets |-> <<r1, r2>>, raised |-> "HTTPError", value |-> None]
    ELSE IF r2.kind = "url_error"
      THEN [gets |-> <<r1, r2>>, raised |-> "URLError", value |-> None]
    ELSE IF r2.kind = "malformed"
      THEN [gets |-> <<r1, r2>>, raised |-> "JSONDecodeError", value |-> None]
    ELSE [gets |-> <<r1, r2>>, raised |-> "none", value |-> [results |-> r2.rows]]

\* pd.DataFrame(data=pango_data)['results'].apply(pd.Series): one row per result;
\* the fields of the results become the columns, so no result gives no column.
ResultsFrame(n) == [rows |-> n, cols |-> IF n = 0 THEN 0 ELSE 1]

\* states_smooth keeps the rows and adds the two columns {column}_cleaned and
\* Smooth{sigma} to a frame that has the value column.
states_smooth_shape(df) == [rows |-> df.rows, cols |-> df.cols + 2]

(***************************************************************************)
(* pull_states_data                                                        *)
(***************************************************************************)
\* The subdivisions of the country, countries_states[alpha2_code].
states_abbr == <<"US-CA", "US-NY", "US-TX">>

\* countries_states = get_country_states(): alpha_2 code -> subdivision codes.
\* Antarctica has no subdivision.
countries_states == [c \in {"AQ", "US"} |-> IF c = "US" THEN states_abbr ELSE <<>>]

\* input_countries = list(countries_states.keys())
input_countries == <<"AQ", "US">>

\* ctr.countries.lookup(country).alpha_3
alpha_3 == [c \in {"AQ", "US"} |-> IF c = "US" THEN "USA" ELSE "ATA"]

\* The country argument of the fetching operation: the main's current country,
\* or the United States when the operation is called on its own.
alpha3_code == IF mpc = "none" THEN "USA" ELSE alpha_3[input_countries[cidx]]

EmptyDict == [a \in {} |-> 0]

DictPut(d, k, v) == [a \in (DOMAIN d) \cup {k} |-> IF a = k THEN v ELSE d[a]]

\* A slip: a frame counted as data only when it has more than one row.
HasRowsMoreThanOne(df) == df.rows > 1

\* if pango_states_df.shape[0] != 0
HasRows(df) == df.rows # 0

\* states_by_lineage calls it with states_dfs = {} and no_data_states = [].
StartPullStates ==
    /\ proc = "running"
    /\ fop = "none"
    /\ mpc \in {"none", "states_by_lineage"}
    /\ fop' = "pull_states_data"
    /\ fpc' = "loop"
    /\ fidx' = 1
    /\ states_dfs' = EmptyDict
    /\ no_data_states' = <<>>
    /\ pulled' = <<>>
    /\ UNCHANGED <<store, proc, fraise, country_df, last_get_json, readVars, writeVars, otherVars>>

\* One iteration of the loop over states_abbr.
PullStatesIteration ==
    /\ proc = "running"
    /\ fop = "pull_states_data"
    /\ fpc = "loop"
    /\ \E r1 \in Responses, r2 \in Responses :
         LET g == get_json(r1, r2)
             abbr == states_abbr[fidx]
         IN  /\ last_get_json' = g
             /\ IF g.raised # "none"
                  THEN /\ fpc' = "raised"
                       /\ fraise' = g.raised
                       /\ proc' = "terminated"
                       /\ UNCHANGED <<fidx, states_dfs, no_data_states, pulled>>
                ELSE IF g.value = None
                  \* pd.DataFrame(data=None)['results']
                  THEN /\ fpc' = "raised"
                       /\ fraise' = "KeyError"
                       /\ proc' = "terminated"
                       /\ UNCHANGED <<fidx, states_dfs, no_data_states, pulled>>
                ELSE LET pango_states_df == ResultsFrame(g.value.results)
                     IN  /\ IF HasRows(pango_states_df)
                              THEN /\ states_dfs' = DictPut(states_dfs, abbr,
                                                      states_smooth_shape(pango_states_df).rows)
                                   /\ UNCHANGED no_data_states
                              ELSE /\ no_data_states' = Append(no_data_states, abbr)
                                   /\ UNCHANGED states_dfs
                         /\ pulled' = Append(pulled, [abbr |-> abbr,
                                                       rows |-> pango_states_df.rows])
                         /\ fidx' = fidx + 1
                         /\ fpc' = IF fidx = Len(states_abbr) THEN "returned" ELSE "loop"
                         /\ UNCHANGED <<fraise, proc>>
    /\ UNCHANGED <<store, fop, country_df, readVars, writeVars, otherVars>>

(***************************************************************************)
(* country_by_lineage, as the pipeline's main calls it: export = True,     *)
(* local = False, folder_path = "interim/variants"                         *)
(***************************************************************************)
\* generate_save_name(lineage, alpha3_code, folder_path, country=True)
CountryKey ==
    DatedKey("interim/variants", "B.1.1.7/USA/B.1.1.7_lineage_data_country.csv")

\* generate_save_name for the lineage B.1.1.7, by country code and kind of table.
generate_save_name(alpha3, country) ==
    IF country
      THEN IF alpha3 = "USA"
             THEN CountryKey
             ELSE DatedKey("interim/variants", "B.1.1.7/ATA/B.1.1.7_lineage_data_country.csv")
      ELSE IF alpha3 = "USA"
             THEN DatedKey("interim/variants", "B.1.1.7/USA/B.1.1.7_lineage_data.csv")
             ELSE DatedKey("interim/variants", "B.1.1.7/ATA/B.1.1.7_lineage_data.csv")

\* known: whether ctr.countries.lookup finds the country (LookupError otherwise);
\* the main passes codes that pycountry itself gave, which it finds.
CountryByLineage ==
    /\ proc = "running"
    /\ fop = "none"
    /\ mpc \in {"none", "country_by_lineage"}
    /\ fop' = "country_by_lineage"
    /\ \E known \in (IF mpc = "none" THEN BOOLEAN ELSE {TRUE}),
          r1 \in Responses, r2 \in Responses, status \in PutStatuses :
         LET g == get_json(r1, r2)
             country == ResultsFrame(IF g.value = None THEN 0 ELSE g.value.results)
             failure ==
                 IF ~known THEN "LookupError"
                 ELSE IF g.raised # "none" THEN g.raised
                 \* pd.DataFrame(data=None)['results']
                 ELSE IF g.value = None THEN "KeyError"
                 \* no 'prevalence' column to smooth
                 ELSE IF country.cols = 0 THEN "KeyError"
                 ELSE "none"
             key == generate_save_name(alpha3_code, TRUE)
             w == df_to_s3(states_smooth_shape(country), key, status)
         IN  /\ last_get_json' = IF known THEN g ELSE last_get_json
             /\ IF failure # "none"
                  THEN /\ fpc' = "raised"
                       /\ fraise' = failure
                       /\ proc' = "terminated"
                       /\ UNCHANGED <<country_df, store, writeVars>>
                  \* if list(country_df): ... else: return None
                  ELSE IF states_smooth_shape(country).cols = 0
                  THEN /\ fpc' = "returned"
                       /\ country_df' = None
                       /\ UNCHANGED <<fraise, proc, store, writeVars>>
                  ELSE /\ writes' = Append(writes, [df |-> states_smooth_shape(country),
                                                    key |-> key])
                       /\ puts' = puts \o w.puts
                       /\ store' = store \cup Stored(w.puts)
                       /\ IF w.outcome = "raise"
                            THEN /\ fpc' = "raised"
                                 /\ fraise' = "df_to_s3"
                                 /\ wraise' = "df_to_s3"
                                 /\ proc' = "terminated"
                                 /\ UNCHANGED country_df
                            ELSE /\ fpc' = "returned"
                                 /\ country_df' = states_smooth_shape(country)
                                 /\ UNCHANGED <<fraise, wraise, proc>>
                       /\ UNCHANGED <<wop, wpc, widx>>
    /\ UNCHANGED <<fidx, states_dfs, no_data_states, pulled, readVars, otherVars>>

(***************************************************************************)
(* The main of data_pipeline_functions.py: for every country, its lineages *)
(* and, for every lineage, the states table and the country table.         *)
(***************************************************************************)
\* The lineage names in the results of the all-lineages endpoint.
ResultLineages == {"b.1.1.7", "other"}

\* x.upper()
upper(x) == IF x = "b.1.1.7" THEN "B.1.1.7" ELSE "OTHER"

\* value_counts().index.tolist(), without 'other', in upper case.
LineageList(names) == IF "b.1.1.7" \in names THEN <<upper("b.1.1.7")>> ELSE <<>>

\* The names n results can carry: at least one, at most n.
NamesOf(n) == {ns \in SUBSET ResultLineages : ns # {} /\ Cardinality(ns) <= n}

\* all_lineages = get_lineages(alpha3_code, ndays), at the top of the country loop.
GetLineages ==
    /\ proc = "running"
    /\ mpc = "get_lineages"
    /\ fop' = "get_lineages"
    /\ \E r1 \in Responses, r2 \in Responses :
         LET g == get_json(r1, r2)
         IN  /\ last_get_json' = g
             /\ IF g.raised # "none"
                  THEN /\ fpc' = "raised"
                       /\ fraise' = g.raised
                       /\ proc' = "terminated"
                       /\ UNCHANGED <<mpc, all_lineages, lidx>>
                \* if pango_data: ... else: all_lineages = []
                ELSE IF g.value = None
                  THEN /\ fpc' = "returned"
                       /\ all_lineages' = <<>>
                       /\ lidx' = 1
                       /\ mpc' = "for_lineage"
                       /\ UNCHANGED <<fraise, proc>>
                \* pango_states_df['lineage'] of a frame without columns
                ELSE IF ResultsFrame(g.value.results).cols = 0
                  THEN /\ fpc' = "raised"
                       /\ fraise' = "KeyError"
                       /\ proc' = "terminated"
                       /\ UNCHANGED <<mpc, all_lineages, lidx>>
                ELSE \E names \in NamesOf(g.value.results) :
                       /\ fpc' = "returned"
                       /\ all_lineages' = LineageList(names)
                       /\ lidx' = 1
                       /\ mpc' = "for_lineage"
                       /\ UNCHANGED <<fraise, proc>>
    /\ UNCHANGED <<store, fidx, states_dfs, no_data_states, country_df, pulled,
                   cidx, processed, readVars, writeVars, riskVars, pureVars>>

\* for lineage in all_lineages, and for country in input_countries around it.
ForLineage ==
    /\ proc = "running"
    /\ mpc = "for_lineage"
    /\ IF lidx <= Len(all_lineages)
         THEN /\ mpc' = IF Len(countries_states[input_countries[cidx]]) > 0
                          THEN "states_by_lineage" ELSE "country_by_lineage"
              /\ UNCHANGED cidx
         ELSE /\ mpc' = IF cidx < Len(input_countries) THEN "get_lineages" ELSE "done"
              /\ cidx' = cidx + 1
    /\ fop' = "none"
    /\ fpc' = "idle"
    /\ UNCHANGED <<store, proc, fidx, fraise, states_dfs, no_data_states, country_df,
                   last_get_json, pulled, all_lineages, lidx, processed,
                   readVars, writeVars, riskVars, pureVars>>

RECURSIVE SumRows(_, _)
SumRows(d, S) ==
    IF S = {} THEN 0
    ELSE LET a == CHOOSE x \in S : TRUE IN d[a] + SumRows(d, S \ {a})

\* pd.concat(list(states_dfs.values())): the rows of all the states' frames; the
\* columns of a state's frame are those of the results, abbr and the two of
\* states_smooth.
bfts_states(dfs) ==
    [rows |-> SumRows(dfs, DOMAIN dfs),
     cols |-> states_smooth_shape(ResultsFrame(1)).cols + 1]

\* states_by_lineage after pull_states_data returned: export = True, local = False.
StatesByLineageReturn ==
    /\ proc = "running"
    /\ mpc = "states_by_lineage"
    /\ fop = "pull_states_data"
    /\ fpc = "returned"
    /\ IF DOMAIN states_dfs # {}
         THEN \E status \in PutStatuses :
                LET key == generate_save_name(alpha3_code, FALSE)
                    w == df_to_s3(bfts_states(states_dfs), key, status)
                IN  /\ writes' = Append(writes, [df |-> bfts_states(states_dfs), key |-> key])
                    /\ puts' = puts \o w.puts
                    /\ store' = store \cup Stored(w.puts)
                    /\ IF w.outcome = "raise"
                         THEN /\ fpc' = "raised"
                              /\ fraise' = "df_to_s3"
                              /\ wraise' = "df_to_s3"
                              /\ proc' = "terminated"
                              /\ UNCHANGED <<mpc, fop>>
                         ELSE /\ mpc' = "country_by_lineage"
                              /\ fop' = "none"
                              /\ fpc' = "idle"
                              /\ UNCHANGED <<fraise, wraise, proc>>
         \* print("No data to save"); return None, None
         ELSE /\ mpc' = "country_by_lineage"
              /\ fop' = "none"
              /\ fpc' = "idle"
              /\ UNCHANGED <<store, proc, fraise, wraise, writes, puts>>
    /\ UNCHANGED <<fidx, states_dfs, no_data_states, country_df, last_get_json, pulled,
                   cidx, all_lineages, lidx, processed, wop, wpc, widx,
                   readVars, riskVars, pureVars>>

\* The end of the body of the lineage loop: country_by_lineage returned.
CountryByLineageReturn ==
    /\ proc = "running"
    /\ mpc = "country_by_lineage"
    /\ fop = "country_by_lineage"
    /\ fpc = "returned"
    /\ processed' = Append(processed, [country |-> input_countries[cidx],
                                        lineage |-> all_lineages[lidx]])
    /\ lidx' = lidx + 1
    /\ mpc' = "for_lineage"
    /\ UNCHANGED <<store, proc, fop, fpc, fidx, fraise, states_dfs, no_data_states,
                   country_df, last_get_json, pulled, cidx, all_lineages,
                   readVars, writeVars, riskVars, pureVars>>

(***************************************************************************)
(* Values of a table cell: a number, or null (NaN).  Dates are day numbers. *)
(***************************************************************************)
Num(n) == [num |-> n]
Zero == Num(0)

\* Series.fillna(0)
fillna(xs) == [i \in 1..Len(xs) |-> IF xs[i] = None THEN Zero ELSE xs[i]]

\* rolling(14)
RollingWindow == 14

\* Series.rolling(w).mean(): null until the window is full, then the mean of
\* the last w values, kept as a term.
rolling_mean(xs, w) ==
    [i \in 1..Len(xs) |->
        IF i < w THEN None ELSE [mean |-> SubSeq(xs, i - w + 1, i)]]

\* scipy.ndimage.gaussian_filter1d(xs, sigma): an array of the length of xs whose
\* element i is the weighted mean of xs around position i, kept as a term.
gaussian_filter1d(xs, sigma) ==
    [i \in 1..Len(xs) |-> [gaussian_filter1d |-> xs, sigma |-> sigma, at |-> i]]

FnUnion(f, g) ==
    [x \in (DOMAIN f) \cup (DOMAIN g) |-> IF x \in DOMAIN f THEN f[x] ELSE g[x]]

(***************************************************************************)
(* Column names.  A lineage name and a column name are sequences of        *)
(* characters, so that "in" is the substring test of Python.               *)
(***************************************************************************)
b_1_1_7 == <<"b", ".", "1", ".", "1", ".", "7">>
b_1_617_2 == <<"b", ".", "1", ".", "6", "1", "7", ".", "2">>
b_1_351 == <<"b", ".", "1", ".", "3", "5", "1">>
p_1 == <<"p", ".", "1">>
ay_4 == <<"a", "y", ".", "4">>
b_1 == <<"b", ".", "1">>

\* f'prevalence_gaussian5_{lineage}'
prevalence_gaussian5(lineage) ==
    <<"p", "r", "e", "v", "a", "l", "e", "n", "c", "e", "_",
      "g", "a", "u", "s", "s", "i", "a", "n", "5", "_">> \o lineage

(***************************************************************************)
(* The series aligner: the lineage loop of get_strains_world and of        *)
(* get_states_strains for one location.  A frame is its value columns and   *)
(* its rows; a row has its Date, its CountryCode and the values v of the    *)
(* value columns.                                                           *)
(***************************************************************************)
\* pd.date_range(start, end): one entry per day, ascending.
date_range(start, end) == [i \in 1..(end - start + 1) |-> start + i - 1]

\* dates = pd.DataFrame({'Date': dates}), from day 1 to day SpineDays; then
\* location_strains_df = dates.copy() with location_strains_df['CountryCode'].
dates ==
    [columns |-> {},
     rows |-> [i \in 1..SpineDays |->
                 [Date |-> date_range(1, SpineDays)[i], CountryCode |-> "USA",
                  v |-> EmptyDict]]]

\* The rows of a left merge on Date that come from one left row: one per
\* matching right row, or the left row with nulls in the right's columns.
MergedRowsOf(lrow, right) ==
    LET ms == SelectSeq(right.rows, LAMBDA r : r.Date = lrow.Date)
    IN  IF ms = <<>>
          THEN <<[lrow EXCEPT !.v = FnUnion(@, [c \in right.columns |-> None])]>>
          ELSE [i \in 1..Len(ms) |-> [lrow EXCEPT !.v = FnUnion(@, ms[i].v)]]

RECURSIVE MergedRows(_, _)
MergedRows(lrows, right) ==
    IF lrows = <<>> THEN <<>>
    ELSE MergedRowsOf(Head(lrows), right) \o MergedRows(Tail(lrows), right)

\* A slip: how='inner', which drops the left rows without a match.
merge_inner(left, right) ==
    [columns |-> left.columns \cup right.columns,
     rows |-> SelectSeq(MergedRows(left.rows, right),
                        LAMBDA r : \E j \in 1..Len(right.rows) : right.rows[j].Date = r.Date)]

\* left.merge(right, how='left') on the common column Date: the order of the
\* left rows is kept.
merge_left(left, right) ==
    [columns |-> left.columns \cup right.columns,
     rows |-> MergedRows(left.rows, right)]

\* df[name] = pd.Series(values): the new Series has the index 0..n-1 and so has
\* the frame after a merge; the assignment aligns on the index, that is by
\* position; rows beyond the Series get null, values beyond the frame are dropped.
AssignSeries(df, name, values) ==
    [columns |-> df.columns \cup {name},
     rows |-> [i \in 1..Len(df.rows) |->
                 [df.rows[i] EXCEPT !.v =
                     FnUnion([c \in {name} |->
                                IF i <= Len(values) THEN values[i] ELSE None], @)]]]

\* new_strain['Date'] = pd.to_datetime(df_lineage['date']): a frame of the
\* lineage's dates and no other column.
new_strain(df_lineage) ==
    [columns |-> {},
     rows |-> [i \in 1..Len(df_lineage) |-> [Date |-> df_lineage[i].date, v |-> EmptyDict]]]

\* gaussian_filter1d(prevalence.fillna(0).rolling(14).mean().fillna(0), 5), one
\* value per point of the lineage, in the order of the points.
smoothed_prevalence(df_lineage) ==
    LET prevalence == fillna([i \in 1..Len(df_lineage) |-> df_lineage[i].prevalence_rolling])
        prevalence14 == rolling_mean(fillna(prevalence), RollingWindow)
    IN  gaussian_filter1d(fillna(prevalence14), 5)

\* The body of the lineage loop of get_strains_world.
strains_world_lineage(location_strains_df, lineage, df_lineage) ==
    AssignSeries(merge_left(location_strains_df, new_strain(df_lineage)),
                 prevalence_gaussian5(lineage),
                 smoothed_prevalence(df_lineage))

\* df_lineage[['date', f'prevalence_gaussian5_{lineage}']] with Date for date.
df_lineage_subset(lineage, df_lineage) ==
    [columns |-> {prevalence_gaussian5(lineage)},
     rows |-> [i \in 1..Len(df_lineage) |->
                 [Date |-> df_lineage[i].date,
                  v |-> [c \in {prevalence_gaussian5(lineage)} |->
                            smoothed_prevalence(df_lineage)[i]]]]]

\* The body of the lineage loop of get_states_strains: two left merges on Date.
states_strains_lineage(location_strains_df, lineage, df_lineage) ==
    merge_left(merge_left(location_strains_df, new_strain(df_lineage)),
               df_lineage_subset(lineage, df_lineage))

\* The lineages of the results, in the order of results_df.lineage.unique().
AlignLineages == <<b_1_1_7, b_1_617_2>>

\* The dates the endpoint may give a point for: the spine, the day before it
\* and the day after it.
PointDates == 0..(SpineDays + 1)

\* A point of a lineage: its date and the endpoint's value for that date.
Point(d) == [date |-> d, prevalence_rolling |-> Num(d)]

RECURSIVE Ascending(_)
\* The members of a set of days in ascending order.
Ascending(S) ==
    IF S = {} THEN <<>>
    ELSE LET d == CHOOSE x \in S : \A y \in S : x <= y
         IN  <<d>> \o Ascending(S \ {d})

\* The series of one lineage: points of unique dates, ascending.
LineageSeries == {[i \in 1..Cardinality(S) |-> Point(Ascending(S)[i])] : S \in SUBSET PointDates}

\* results_df of one location: for each lineage its rows; a lineage without rows
\* is not in the results.
AlignResults == [1..Len(AlignLineages) -> LineageSeries]

\* results_df.lineage.unique()
unique_lineages(results_df) ==
    SelectSeq([i \in 1..Len(AlignLineages) |-> i], LAMBDA i : results_df[i] # <<>>)

\* One iteration of the lineage loop of the function under study.
MergeLineage ==
    /\ applied \in {"get_strains_world", "get_states_strains"}
    /\ output.merged < Len(unique_lineages(input))
    /\ LET k == unique_lineages(input)[output.merged + 1]
           df == output.location_strains_df
       IN  output' =
             [location_strains_df |->
                 IF applied = "get_strains_world"
                   THEN strains_world_lineage(df, AlignLineages[k], input[k])
                   ELSE states_strains_lineage(df, AlignLineages[k], input[k]),
              merged |-> output.merged + 1]
    /\ UNCHANGED <<store, proc, applied, input, readVars, writeVars, fetchVars,
                   mainVars, riskVars>>

(***************************************************************************)
(* The lineage aggregator get_variant_data                                 *)
(***************************************************************************)
\* sub in x
Contains(x, sub) ==
    \E i \in 0..(Len(x) - Len(sub)) : SubSeq(x, i + 1, i + Len(sub)) = sub

\* 'prevalence_gaussian5_b.1.1.7'
alpha_name == prevalence_gaussian5(b_1_1_7)

\* A slip: the marker cut short to "_b.1.", which every B.1 lineage has.
beta_names_short(all_data_columns) ==
    {x \in all_data_columns : Contains(x, <<"_", "b", ".", "1", ".">>)}

\* [x for x in all_data_columns if "_b.1.351" in x]
beta_names(all_data_columns) ==
    {x \in all_data_columns : Contains(x, <<"_">> \o b_1_351)}

\* base_name = "prevalence_gaussian5_p.1"
base_name == prevalence_gaussian5(p_1)

\* [x for x in all_data_columns if base_name in x]
gamma_names(all_data_columns) ==
    {x \in all_data_columns : Contains(x, base_name)}

\* base_variant = "prevalence_gaussian5_b.1.617.2"
base_variant == prevalence_gaussian5(b_1_617_2)

\* [x for x in all_data_columns if "_ay." in x], then append(base_variant)
delta_names(all_data_columns) ==
    {x \in all_data_columns : Contains(x, <<"_", "a", "y", ".">>)} \cup {base_variant}

\* A cell that holds a number, as opposed to null or to a term.
IsNum(x) == x # None /\ DOMAIN x = {"num"}

RECURSIVE SumOf(_, _)
\* The sum of the numbers of a row in the columns S, skipping nulls; 0 for no column.
SumOf(v, S) ==
    IF S = {} THEN 0
    ELSE LET c == CHOOSE x \in S : TRUE
         IN  (IF IsNum(v[c]) THEN v[c].num ELSE 0) + SumOf(v, S \ {c})

\* The sum of a row over the columns S: a number, plus the terms among the
\* values when there are any.
row_sum(v, S) ==
    LET terms == {c \in S : v[c] # None /\ ~IsNum(v[c])}
    IN  IF terms = {} THEN Num(SumOf(v, S))
        ELSE [num |-> SumOf(v, S), plus |-> [c \in terms |-> v[c]]]

\* all_data[names].sum(axis=1)
sum_axis1(data, names) ==
    [i \in 1..Len(data.rows) |-> row_sum(data.rows[i].v, names)]

\* all_data["Date"].astype(str): the date written as text.
astype_str(d) == [str |-> d]

\* get_variant_data(all_data): indexing by a column the frame lacks raises
\* KeyError; otherwise one output row per input row.
get_variant_data(data) ==
    IF alpha_name \notin data.columns \/ base_variant \notin data.columns
      THEN [raised |-> "KeyError", value |-> None]
      ELSE LET alpha_variant == [i \in 1..Len(data.rows) |-> data.rows[i].v[alpha_name]]
               beta_variant == sum_axis1(data, beta_names(data.columns))
               gamma_variant == sum_axis1(data, gamma_names(data.columns))
               delta_variant == sum_axis1(data, delta_names(data.columns))
           IN  [raised |-> "none",
                value |-> [i \in 1..Len(data.rows) |->
                             [Date |-> astype_str(data.rows[i].Date),
                              CountryCode |-> data.rows[i].CountryCode,
                              Alpha |-> alpha_variant[i],
                              Beta |-> beta_variant[i],
                              Gamma |-> gamma_variant[i],
                              Delta |-> delta_variant[i]]]]

\* The value columns a wide table may have: one per lineage.
WideLineages == <<b_1_1_7, b_1_351, p_1, ay_4, b_1_617_2, b_1>>
WideColumns == {prevalence_gaussian5(WideLineages[i]) : i \in 1..Len(WideLineages)}

\* More lineage names for the column selections: sublineages b.1.351.2, p.1.1
\* and ay.4.2, and ay.4_b.1.351x, a name that is not of the Pango form (two
\* family markers joined by "_").
SelectLineages ==
    WideLineages \o
    <<b_1_351 \o <<".", "2">>, p_1 \o <<".", "1">>, ay_4 \o <<".", "2">>,
      ay_4 \o <<"_">> \o b_1_351 \o <<"x">>>>

\* The value of a column where it is not null: 1, 2, 4, ... by lineage, so that
\* a sum tells which columns it is made of.
RECURSIVE Pow2(_)
Pow2(n) == IF n = 0 THEN 1 ELSE 2 * Pow2(n - 1)
ValueOf(c) ==
    Num(Pow2((CHOOSE i \in 1..Len(SelectLineages) :
                 prevalence_gaussian5(SelectLineages[i]) = c) - 1))

\* The wide tables of up to m rows: any set of value columns, any cell null.
WideTables(m) ==
    UNION {UNION {{[columns |-> cols,
                    rows |-> [i \in 1..n |->
                                [Date |-> i, CountryCode |-> "USA",
                                 v |-> [c \in cols |-> IF c \in nulls[i] THEN None
                                                       ELSE ValueOf(c)]]]]
                     : nulls \in [1..n -> SUBSET cols]}
                  : n \in 0..m}
           : cols \in SUBSET WideColumns}

\* The wide tables of up to m rows over any set of the columns of
\* SelectLineages, no cell null.
FullTables(m) ==
    UNION {{[columns |-> cols,
             rows |-> [i \in 1..n |->
                         [Date |-> i, CountryCode |-> "USA",
                          v |-> [c \in cols |-> ValueOf(c)]]]]
              : n \in 0..m}
           : cols \in SUBSET {prevalence_gaussian5(SelectLineages[i])
                                : i \in 1..Len(SelectLineages)}}

ApplyGetVariantData ==
    /\ applied = "none"
    /\ input # None
    /\ applied' = "get_variant_data"
    /\ output' = get_variant_data(input)
    /\ UNCHANGED <<store, proc, input, readVars, writeVars, fetchVars, mainVars, riskVars>>

(***************************************************************************)
(* The series smoothers: daily_data_cases_deaths, smooth_cases_deaths,      *)
(* smooth_data (risk_calculator_cases_deaths.py) and states_smooth.  A      *)
(* frame is the sequence of its rows; a row is a record of its columns.     *)
(***************************************************************************)
\* df[name]
column(df, name) == [i \in 1..Len(df) |-> df[i][name]]

\* df[name] = values, values being an array: by position.
with_column(df, name, values) ==
    [i \in 1..Len(df) |-> FnUnion([c \in {name} |-> values[i]], df[i])]

\* A slip: the first difference taken against 0.
diff_from_zero(xs) ==
    [i \in 1..Len(xs) |->
        IF xs[i] = None \/ (i > 1 /\ xs[i - 1] = None) THEN None
        ELSE Num(xs[i].num - (IF i = 1 THEN 0 ELSE xs[i - 1].num))]

\* Series.diff(): null in the first row and where either value is null.
diff(xs) ==
    [i \in 1..Len(xs) |->
        IF i = 1 \/ xs[i] = None \/ xs[i - 1] = None THEN None
        ELSE Num(xs[i].num - xs[i - 1].num)]

daily_data_cases_deaths(group) ==
    with_column(
        with_column(group, "DailyCases", fillna(diff(column(group, "ConfirmedCases")))),
        "DailyDeaths", fillna(diff(column(group, "ConfirmedDeaths"))))

\* oxford_smooth_and_push calls it with sigma = 7, which gives the columns
\* SmoothDailyCases7 and SmoothDailyDeaths7.
smooth_cases_deaths(group, sigma) ==
    LET daily == daily_data_cases_deaths(group)
    IN  with_column(
            with_column(daily, "SmoothDailyCases7",
                        gaussian_filter1d(column(daily, "DailyCases"), sigma)),
            "SmoothDailyDeaths7", gaussian_filter1d(column(daily, "DailyDeaths"), sigma))

\* smooth_data of risk_calculator_cases_deaths.py
smooth_data(group) ==
    LET filled_cases == fillna(column(group, "ConfirmedCases"))
        filled_deaths == fillna(column(group, "ConfirmedDeaths"))
    IN  with_column(
            with_column(group, "Smooth7ConfirmedCases", gaussian_filter1d(filled_cases, 7)),
            "Smooth7ConfirmedDeaths", gaussian_filter1d(filled_deaths, 7))

RECURSIVE sort_values(_)
\* df.sort_values(by="date"), for rows of distinct dates.
sort_values(df) ==
    IF df = <<>> THEN <<>>
    ELSE LET k == CHOOSE i \in 1..Len(df) : \A j \in 1..Len(df) : df[i].date <= df[j].date
         IN  <<df[k]>> \o sort_values(SubSeq(df, 1, k - 1) \o SubSeq(df, k + 1, Len(df)))

\* A slip: the values smoothed in the order of the input, the rows sorted after.
states_smooth_unsorted(df, sigma) ==
    LET cleaned == with_column(df, "prevalence_cleaned", fillna(column(df, "prevalence")))
    IN  sort_values(with_column(cleaned, "Smooth7",
                        gaussian_filter1d(column(cleaned, "prevalence_cleaned"), sigma)))

\* states_smooth(df, column="prevalence", sigma): its callers pass sigma = 7,
\* which gives the column Smooth7.
states_smooth(df, sigma) ==
    LET cleaned == with_column(df, "prevalence_cleaned", fillna(column(df, "prevalence")))
        sorted == sort_values(cleaned)
    IN  with_column(sorted, "Smooth7",
                    gaussian_filter1d(column(sorted, "prevalence_cleaned"), sigma))

\* A count or a prevalence value: a number, or null.
Counts == {None} \cup {Num(n) : n \in 0..MaxCount}

\* The groups of the Oxford data of up to m rows: the rows of one country or
\* region, by date.
Groups(m) ==
    UNION {[1..n -> [ConfirmedCases : Counts, ConfirmedDeaths : Counts]] : n \in 1..m}

\* The frames of one state or country of up to m rows: rows of distinct dates,
\* in any order.
Frames(m) ==
    UNION {{f \in [1..n -> [date : 1..m, prevalence : Counts]] :
              \A i, j \in 1..n : f[i].date = f[j].date => i = j}
           : n \in 1..m}

\* A group has the cumulative counts; a state's frame has the date.
IsGroup(df) == "ConfirmedCases" \in DOMAIN df[1]
IsFrame(df) == "date" \in DOMAIN df[1]

ApplyDailyData ==
    /\ applied = "none"
    /\ IsGroup(input)
    /\ applied' = "daily_data_cases_deaths"
    /\ output' = daily_data_cases_deaths(input)
    /\ UNCHANGED <<store, proc, input, readVars, writeVars, fetchVars, mainVars, riskVars>>

ApplySmoothCasesDeaths ==
    /\ applied = "none"
    /\ IsGroup(input)
    /\ applied' = "smooth_cases_deaths"
    /\ output' = smooth_cases_deaths(input, 7)
    /\ UNCHANGED <<store, proc, input, readVars, writeVars, fetchVars, mainVars, riskVars>>

ApplySmoothData ==
    /\ applied = "none"
    /\ IsGroup(input)
    /\ applied' = "smooth_data"
    /\ output' = smooth_data(input)
    /\ UNCHANGED <<store, proc, input, readVars, writeVars, fetchVars, mainVars, riskVars>>

ApplyStatesSmooth ==
    /\ applied = "none"
    /\ IsFrame(input)
    /\ applied' = "states_smooth"
    /\ output' = states_smooth(input, 7)
    /\ UNCHANGED <<store, proc, input, readVars, writeVars, fetchVars, mainVars, riskVars>>

(***************************************************************************)
(* The main of risk_calculator_data.py                                     *)
(***************************************************************************)
\* A slip: the regular table pushed as soon as it is built.
RiskMainPushesEarly ==
    <<"get_strains_world", "df_to_s3_regular", "get_variant_data", "df_to_s3_greek">>

\* The statements of the main that fetch, assemble and write, in order.
RiskMain ==
    <<"get_strains_world", "get_variant_data", "df_to_s3_regular", "df_to_s3_greek">>

StatementAfter(stmt) ==
    LET i == CHOOSE j \in 1..Len(RiskMain) : RiskMain[j] = stmt
    IN  IF i = Len(RiskMain) THEN "done" ELSE RiskMain[i + 1]

\* oxford_data.CountryCode.unique()
Locations == <<"AFG", "USA">>

\* What requests.get(...).text and json.loads give for one location: no
\* connection, a body that is not JSON, success false, or success with results.
\* In these results a lineage has a point for every spine day or none at all.
FullSeries == [i \in 1..SpineDays |-> Point(date_range(1, SpineDays)[i])]
LocationAnswers ==
    {[kind |-> k, results |-> <<>>] : k \in {"connection_error", "malformed", "no_success"}}
      \cup {[kind |-> "success", results |-> r] :
               r \in [1..Len(AlignLineages) -> {<<>>, FullSeries}]}

RECURSIVE MergeAll(_, _, _)
\* The lineage loop of get_strains_world from the k-th lineage of the results on.
MergeAll(df, results_df, k) ==
    IF k > Len(unique_lineages(results_df)) THEN df
    ELSE LET l == unique_lineages(results_df)[k]
         IN  MergeAll(strains_world_lineage(df, AlignLineages[l], results_df[l]),
                      results_df, k + 1)

\* location_strains_df of one location: the spine with the location's code, then
\* the lineage loop.
location_strains(location, results_df) ==
    MergeAll([dates EXCEPT !.rows = [i \in 1..Len(@) |-> [@[i] EXCEPT !.CountryCode = location]]],
             results_df, 1)

\* new_strains_df.append(location_strains_df, ignore_index=True): the rows of
\* both, the columns of both, null where a frame lacks a column.
append(df, other) ==
    LET cols == df.columns \cup other.columns
        widen(rows) ==
            [i \in 1..Len(rows) |->
                [rows[i] EXCEPT !.v = FnUnion(@, [c \in cols |-> None])]]
    IN  [columns |-> cols, rows |-> widen(df.rows) \o widen(other.rows)]

\* The shape of a wide table: Date, CountryCode, CountryName and Population are
\* columns of a table that has rows; pd.DataFrame() has no column.
shape(df) ==
    [rows |-> Len(df.rows),
     cols |-> Cardinality(df.columns) + (IF Len(df.rows) > 0 THEN 4 ELSE 0)]

\* One iteration of the location loop of get_strains_world, or its return.
StrainsWorldLocation ==
    /\ proc = "running"
    /\ kpc = "get_strains_world"
    /\ IF kidx > Len(Locations)
         \* return new_strains_df
         THEN /\ kpc' = StatementAfter("get_strains_world")
              /\ UNCHANGED <<kidx, all_data, kraise, proc>>
         ELSE \E a \in LocationAnswers :
                IF a.kind = "connection_error"
                  THEN /\ kraise' = "ConnectionError"
                       /\ proc' = "terminated"
                       /\ UNCHANGED <<kpc, kidx, all_data>>
                ELSE IF a.kind = "malformed"
                  THEN /\ kraise' = "JSONDecodeError"
                       /\ proc' = "terminated"
                       /\ UNCHANGED <<kpc, kidx, all_data>>
                ELSE IF a.kind = "no_success"
                  THEN /\ kidx' = kidx + 1
                       /\ UNCHANGED <<kpc, all_data, kraise, proc>>
                \* results_df.lineage of a frame without columns
                ELSE IF unique_lineages(a.results) = <<>>
                  THEN /\ kraise' = "AttributeError"
                       /\ proc' = "terminated"
                       /\ UNCHANGED <<kpc, kidx, all_data>>
                ELSE /\ all_data' = append(all_data, location_strains(Locations[kidx], a.results))
                     /\ kidx' = kidx + 1
                     /\ UNCHANGED <<kpc, kraise, proc>>
    /\ UNCHANGED <<store, all_data_new, readVars, writeVars, fetchVars, mainVars, pureVars>>

\* all_data_new = get_variant_data(all_data)
VariantData ==
    /\ proc = "running"
    /\ kpc = "get_variant_data"
    /\ LET r == get_variant_data(all_data)
       IN  IF r.raised # "none"
             THEN /\ kraise' = r.raised
                  /\ proc' = "terminated"
                  /\ UNCHANGED <<kpc, all_data_new>>
             ELSE /\ all_data_new' = r.value
                  /\ kpc' = StatementAfter("get_variant_data")
                  /\ UNCHANGED <<kraise, proc>>
    /\ UNCHANGED <<store, kidx, all_data, readVars, writeVars, fetchVars, mainVars, pureVars>>

\* df_to_s3(all_data, ..., save_full_path_regular) and
\* df_to_s3(all_data_new, ..., save_full_path_greek)
RiskPush ==
    /\ proc = "running"
    /\ kpc \in {"df_to_s3_regular", "df_to_s3_greek"}
    /\ \E status \in PutStatuses :
         LET df == IF kpc = "df_to_s3_regular" THEN shape(all_data)
                   ELSE IF all_data_new = None THEN [rows |-> 0, cols |-> 0]
                   ELSE [rows |-> Len(all_data_new), cols |-> 8]
             key == IF kpc = "df_to_s3_regular"
                      THEN UndatedKey("all_countries_regular_variants.csv")
                      ELSE UndatedKey("all_countries_galphabet_variants.csv")
             w == df_to_s3(df, key, status)
         IN  /\ writes' = Append(writes, [df |-> df, key |-> key])
             /\ puts' = puts \o w.puts
             /\ store' = store \cup Stored(w.puts)
             /\ IF w.outcome = "raise"
                  THEN /\ kraise' = "df_to_s3"
                       /\ wraise' = "df_to_s3"
                       /\ proc' = "terminated"
                       /\ UNCHANGED kpc
                  ELSE /\ kpc' = StatementAfter(kpc)
                       /\ UNCHANGED <<kraise, wraise, proc>>
    /\ UNCHANGED <<kidx, all_data, all_data_new, wop, wpc, widx,
                   readVars, fetchVars, mainVars, pureVars>>

\* The run is stopped from outside (KeyboardInterrupt, kill) at any statement.
Interrupt ==
    /\ proc = "running"
    /\ kpc \notin {"none", "done"}
    /\ proc' = "terminated"
    /\ kraise' = "KeyboardInterrupt"
    /\ UNCHANGED <<store, kpc, kidx, all_data, all_data_new,
                   readVars, writeVars, fetchVars, mainVars, pureVars>>

(***************************************************************************)
(* Specifications.  A run is one process; the bucket outlives it.          *)
(***************************************************************************)
Fresh ==
    /\ proc = "running"
    /\ dstep = "none"
    /\ vidx = 0
    /\ rpc = "idle"
    /\ path = VariantsPath
    /\ num_days = 0
    /\ keycount = 0
    /\ response = None
    /\ probed = <<>>
    /\ downloaded = {}
    /\ wop = "none"
    /\ wpc = "idle"
    /\ widx = 0
    /\ wraise = "none"
    /\ writes = <<>>
    /\ puts = <<>>
    /\ fop = "none"
    /\ fpc = "idle"
    /\ fidx = 0
    /\ fraise = "none"
    /\ states_dfs = EmptyDict
    /\ no_data_states = <<>>
    /\ country_df = None
    /\ last_get_json = [gets |-> <<>>, raised |-> "none", value |-> None]
    /\ pulled = <<>>

\* The pipeline's main is not the caller.
MainIdle ==
    /\ mpc = "none"
    /\ cidx = 0
    /\ all_lineages = <<>>
    /\ lidx = 0
    /\ processed = <<>>

\* risk_calculator_data's main is not running.
RiskIdle ==
    /\ kpc = "none"
    /\ kidx = 0
    /\ all_data = [columns |-> {}, rows |-> <<>>]
    /\ all_data_new = None
    /\ kraise = "none"

\* No data transformation is under study.
PureIdle ==
    /\ applied = "none"
    /\ input = None
    /\ output = None

\* The download side: the bucket holds what earlier runs left.
InitResolve ==
    /\ store \in SubsetsUpTo(Keys, MaxObjects)
    /\ Fresh
    /\ MainIdle /\ RiskIdle /\ PureIdle

NextResolve ==
    \/ \E step \in DownloadSteps : StartDownload(step)
    \/ Probe
    \/ ResolverReturn
    \/ DownloadFiles

SpecResolve == InitResolve /\ [][NextResolve]_vars

\* The write side.
InitWrite ==
    /\ store = {}
    /\ Fresh
    /\ MainIdle /\ RiskIdle /\ PureIdle

NextWrite ==
    \/ \E df \in CallerTables, key \in RiskCalcKeys, status \in PutStatuses :
          WriteTable(df, key, status)
    \/ \E step \in PushSteps : StartPush(step)
    \/ PushIteration

SpecWrite == InitWrite /\ [][NextWrite]_vars

\* The fetch side.
InitFetch ==
    /\ store = {}
    /\ Fresh
    /\ MainIdle /\ RiskIdle /\ PureIdle

NextFetch ==
    \/ StartPullStates
    \/ PullStatesIteration
    \/ CountryByLineage

SpecFetch == InitFetch /\ [][NextFetch]_vars

\* The push step each download step reads from; download_vaccine_data reads
\* the daily push first and the weekly push second.
PushOf(step, i) ==
    IF step = "download_variants_data" THEN "country_by_lineage"
    ELSE IF step = "download_oxford_data" THEN "oxford_smooth_and_push"
    ELSE IF save_paths[i] = "daily" THEN "vaccination_daily_push"
    ELSE "vaccination_weekly_push"

\* The push step of this run, once it returned.
ReturnedPush ==
    IF wpc = "returned" THEN wop
    ELSE IF fpc = "returned" THEN fop
    ELSE "none"

\* A push step of today's run, then the download step that reads what it wrote.
\* The bucket holds what yesterday's run left.
InitPushPull ==
    /\ store \in SubsetsUpTo({k \in Keys : k.day = 1}, MaxObjects)
    /\ Fresh
    /\ MainIdle /\ RiskIdle /\ PureIdle

NextPushPull ==
    \/ \E step \in PushSteps : fop = "none" /\ StartPush(step)
    \/ PushIteration
    \/ fop = "none" /\ StartOxfordPush
    \/ OxfordPushIteration
    \/ wop = "none" /\ CountryByLineage
    \/ \E step \in DownloadSteps :
          /\ ReturnedPush \in {PushOf(step, i) : i \in 1..Len(save_paths)}
          /\ StartDownload(step)
    \/ Probe
    \/ ResolverReturn
    \/ DownloadFiles

SpecPushPull == InitPushPull /\ [][NextPushPull]_vars

\* The pipeline's main: the run starts at the first country.
InitMain ==
    /\ store = {}
    /\ Fresh
    /\ mpc = "get_lineages"
    /\ cidx = 1
    /\ all_lineages = <<>>
    /\ lidx = 0
    /\ processed = <<>>
    /\ RiskIdle /\ PureIdle

NextMain ==
    \/ GetLineages
    \/ ForLineage
    \/ StartPullStates
    \/ PullStatesIteration
    \/ StatesByLineageReturn
    \/ CountryByLineage
    \/ CountryByLineageReturn

SpecMain == InitMain /\ [][NextMain]_vars

\* The aligner on the results of one location.
InitAlign ==
    /\ store = {}
    /\ Fresh
    /\ MainIdle /\ RiskIdle
    /\ applied \in {"get_strains_world", "get_states_strains"}
    /\ input \in AlignResults
    /\ output = [location_strains_df |-> dates, merged |-> 0]

NextAlign == MergeLineage

SpecAlign == InitAlign /\ [][NextAlign]_vars

\* risk_calculator_data's main, from its first statement.
InitRisk ==
    /\ store = {}
    /\ Fresh
    /\ MainIdle /\ PureIdle
    /\ kpc = RiskMain[1]
    /\ kidx = 1
    /\ all_data = [columns |-> {}, rows |-> <<>>]
    /\ all_data_new = None
    /\ kraise = "none"

NextRisk ==
    \/ StrainsWorldLocation
    \/ VariantData
    \/ RiskPush
    \/ Interrupt

SpecRisk == InitRisk /\ [][NextRisk]_vars

\* The aggregator on a wide table.
InitVariant ==
    /\ store = {}
    /\ Fresh
    /\ MainIdle /\ RiskIdle
    /\ applied = "none"
    /\ input \in WideTables(MaxRows)
    /\ output = None

NextVariant == ApplyGetVariantData

SpecVariant == InitVariant /\ [][NextVariant]_vars

\* The lineage aggregator on tables of many column sets.
InitSelect ==
    /\ store = {}
    /\ Fresh
    /\ MainIdle /\ RiskIdle
    /\ applied = "none"
    /\ input \in FullTables(MaxRows)
    /\ output = None

SpecSelect == InitSelect /\ [][ApplyGetVariantData]_vars

\* The smoothers on a group of the Oxford data or on a state's frame.
InitSeries ==
    /\ store = {}
    /\ Fresh
    /\ MainIdle /\ RiskIdle
    /\ applied = "none"
    /\ input \in Groups(MaxLen) \cup Frames(MaxLen)
    /\ output = None

NextSeries ==
    \/ ApplyDailyData
    \/ ApplySmoothCasesDeaths
    \/ ApplySmoothData
    \/ ApplyStatesSmooth

SpecSeries == InitSeries /\ [][NextSeries]_vars

(***************************************************************************)
(* The partition resolver: claims C1 to C5                                 *)
(***************************************************************************)
ResolverActive == rpc # "idle"

\* The 10 days today-0 .. today-9.
WindowOffsets == 0..(maxLookbackDays - 1)
NonEmptyInWindow(p) == {d \in WindowOffsets : Listing(p, d) # {}}
WindowEmpty(p) == NonEmptyInWindow(p) = {}
\* The smallest offset of the window that has an object.
MostRecent(p) == CHOOSE d \in NonEmptyInWindow(p) : \A e \in NonEmptyInWindow(p) : d <= e

\* C1: whenever some day of today-0 .. today-9 has an object under the path, the
\* resolver stops at the most recent such day d (it lists the days 0..d and no
\* more, and does not raise) and returns that day's listing and key count.
C1_MostRecentDayReturned ==
    (ResolverActive /\ ~WindowEmpty(path)) =>
        LET d == MostRecent(path)
        IN  /\ Len(probed) <= d + 1
            /\ rpc # "raised"
            /\ rpc = "returned" =>
                 /\ response = list_objects_v2(path, d)
                 /\ keycount = Cardinality(Listing(path, d))

\* C2: when none of the days today-0 .. today-9 has an object under the path,
\* the resolver makes exactly 10 list calls and no more, and returns not-found
\* (response None, keycount 0).
C2_NotFoundAfterTenProbes ==
    (ResolverActive /\ WindowEmpty(path)) =>
        /\ Len(probed) <= maxLookbackDays
        /\ rpc \in {"loop", "returned"}
        /\ rpc = "returned" =>
             /\ response = None
             /\ keycount = 0
             /\ Len(probed) = maxLookbackDays

\* C3: when today's partition has an object, the resolver lists day 0 first,
\* makes exactly one list call, can then only return (it terminates), and
\* returns today's listing and key count.
C3_TodayFoundInOneProbe ==
    (ResolverActive /\ Listing(path, 0) # {}) =>
        /\ Len(probed) <= 1
        /\ rpc \in {"loop", "returned"}
        /\ (rpc = "loop" /\ Len(probed) = 1) =>
             (ENABLED ResolverReturn /\ ~ENABLED Probe)
        /\ rpc = "returned" =>
             /\ probed = <<0>>
             /\ response = list_objects_v2(path, 0)
             /\ keycount = Cardinality(Listing(path, 0))
             /\ keycount > 0

\* C3, its case: a resolver call that returned with an object in today's partition.
C3_Witness ==
    /\ rpc = "returned"
    /\ Listing(path, 0) # {}
    /\ probed = <<0>>

\* C4: whatever the bucket holds, a resolver call makes at most
\* maxLookbackDays = 10 list calls and ends by returning.
C4_AtMostTenListCalls ==
    ResolverActive =>
        /\ Len(probed) <= maxLookbackDays
        /\ rpc # "raised"

\* The not-found case of a download step: the 10-day window of the path it
\* resolves is empty, or the resolver handed it None.
NotFoundCase ==
    /\ dstep # "none"
    /\ ResolverActive
    /\ WindowEmpty(path) \/ (rpc = "returned" /\ response = None)

\* C5: in the not-found case the download step downloads nothing from the path
\* and raises no error that terminates the process, so later steps can run.
C5_NotFoundEndsOnlyTheStep ==
    NotFoundCase =>
        /\ proc = "running"
        /\ rpc # "raised"
        /\ {k \in downloaded : k.path = path} = {}

(***************************************************************************)
(* The storage writer: claims C6 and C7                                    *)
(***************************************************************************)
\* The keys of the df_to_s3 calls whose table has at least one row, in call order.
RECURSIVE KeysOfTablesWithRows(_)
KeysOfTablesWithRows(ws) ==
    IF ws = <<>> THEN <<>>
    ELSE (IF Head(ws).df.rows > 0 THEN <<Head(ws).key>> ELSE <<>>)
           \o KeysOfTablesWithRows(Tail(ws))

\* C6: the puts issued so far are, in order, one put to the given key for each
\* df_to_s3 call whose table has at least one row; a call with a zero-row table
\* issues none.
C6_OnePutPerNonEmptyTable ==
    [i \in 1..Len(puts) |-> puts[i].Key] = KeysOfTablesWithRows(writes)

\* C6, its case: a run that called df_to_s3 with a zero-row table and with a
\* table that has rows.
C6_Witness ==
    /\ \E i \in 1..Len(writes) : writes[i].df.rows = 0
    /\ \E i \in 1..Len(writes) : writes[i].df.rows > 0
    /\ Len(puts) = 1

\* C7: a put that returns a non-success status raises nothing: the push goes on
\* with the next table (every table before position widx was handed to
\* df_to_s3), a push that returned has attempted every table of its list, and
\* a push ends early only when read_csv raised.
C7_FailedPutDoesNotStopThePush ==
    /\ wraise # "df_to_s3"
    /\ wop \in PushSteps =>
         /\ [i \in 1..Len(writes) |-> writes[i].key.name]
              = SubSeq(locations(wop), 1, widx - 1)
         /\ wpc = "returned" => Len(writes) = Len(locations(wop))
         /\ wpc = "raised" => wraise = "read_csv"
    /\ wop = "direct" => wpc = "returned"

\* C7, its case: vaccination_daily_push returned although the put of its first
\* table returned a non-success status; the three tables after it were written.
C7_Witness ==
    /\ wop = "vaccination_daily_push"
    /\ wpc = "returned"
    /\ Len(puts) = Len(locations(wop))
    /\ puts[1].Status # HTTP_OK
    /\ \A i \in 2..Len(puts) : puts[i].Status = HTTP_OK

(***************************************************************************)
(* The remote source adapter: claims C8 to C10                             *)
(***************************************************************************)
GetJsonCalled == last_get_json.gets # <<>>

\* C8: one get_json call issues a single HTTP GET, whether it succeeds or fails.
C8_SingleGet ==
    GetJsonCalled => Len(last_get_json.gets) = 1

\* The last request of the most recent get_json call failed at the transport
\* level: a non-2xx status, a connection error or timeout, or a body that was
\* read and is malformed.
LastRequestFailed ==
    /\ GetJsonCalled
    /\ last_get_json.gets[Len(last_get_json.gets)].kind \in TransportFailures

\* C9: whenever a request of a get_json call fails at the transport level, the
\* call returns None and raises nothing; the failed request is not retried.
C9_FailureGivesNone ==
    LastRequestFailed =>
        /\ last_get_json.raised = "none"
        /\ last_get_json.value = None
        /\ \A i \in 1..(Len(last_get_json.gets) - 1) :
              last_get_json.gets[i].kind \notin TransportFailures

\* get_json returned the not-available value to the caller.
NotAvailable ==
    /\ GetJsonCalled
    /\ last_get_json.raised = "none"
    /\ last_get_json.value = None

\* C10: when the fetch for a state or for a country returns not-available, the
\* caller raises nothing and records no data for it, and pull_states_data goes
\* on with the next state.
C10_NotAvailableIsZeroRows ==
    (fop # "none" /\ NotAvailable) =>
        /\ fpc # "raised"
        /\ proc = "running"
        /\ fop = "country_by_lineage" => country_df = None
        /\ fop = "pull_states_data" => (fidx - 1) \in 1..Len(states_abbr)
        /\ fop = "pull_states_data" => states_abbr[fidx - 1] \notin DOMAIN states_dfs

(***************************************************************************)
(* The orchestration loop of the pipeline: claim C11                       *)
(***************************************************************************)
\* C11: in the loop over countries and lineages a failure while processing one
\* country or lineage never ends the batch: the run is not terminated by an
\* exception before the last country of input_countries has been processed.
C11_FailureDoesNotEndTheBatch ==
    (mpc # "none" /\ proc = "terminated") => cidx > Len(input_countries)

(***************************************************************************)
(* pull_states_data: claim C20                                             *)
(***************************************************************************)
PullReturned == fop = "pull_states_data" /\ fpc = "returned"
StatesSet == {states_abbr[i] : i \in 1..Len(states_abbr)}
NoDataSet == {no_data_states[i] : i \in 1..Len(no_data_states)}

\* C20: after pull_states_data returns normally every state of states_abbr was
\* fetched once, and it is a key of states_dfs exactly when its fetch gave at
\* least one row and an element of no_data_states exactly when it gave none;
\* no state is in both or listed twice, and no other code appears.
C20_EveryStateInExactlyOneResult ==
    PullReturned =>
        /\ Len(pulled) = Len(states_abbr)
        /\ \A i \in 1..Len(states_abbr) :
              /\ pulled[i].abbr = states_abbr[i]
              /\ pulled[i].rows >= 1 =>
                    states_abbr[i] \in (DOMAIN states_dfs) \ NoDataSet
              /\ pulled[i].rows = 0 =>
                    states_abbr[i] \in NoDataSet \ (DOMAIN states_dfs)
        /\ (DOMAIN states_dfs) \cup NoDataSet \subseteq StatesSet
        /\ Cardinality(NoDataSet) = Len(no_data_states)

\* A call that returned with states of both kinds.
C20_Witness ==
    /\ PullReturned
    /\ DOMAIN states_dfs # {}
    /\ no_data_states # <<>>

(***************************************************************************)
(* risk_calculator_data's main: claim C12                                  *)
(***************************************************************************)
\* get_strains_world and get_variant_data have both returned.
AssemblyReturned == kidx > Len(Locations) /\ all_data_new # None

\* C12: in risk_calculator_data nothing is written (no df_to_s3 call, no put,
\* no object) before get_strains_world and get_variant_data have both returned,
\* so a run that stops during the assembly has written nothing.
C12_PutOnlyAfterAssembly ==
    kpc # "none" =>
        /\ (writes # <<>> \/ puts # <<>> \/ store # {}) => AssemblyReturned
        /\ (proc = "terminated" /\ ~AssemblyReturned) => (puts = <<>> /\ store = {})

\* A run that assembled both tables and put them.
C12_Witness ==
    /\ kpc = "done"
    /\ Len(puts) = 2
    /\ AssemblyReturned

(***************************************************************************)
(* The series aligner: claims C13 and C14                                  *)
(***************************************************************************)
\* The positions of the points of a series that are dated d.
PointsAt(df_lineage, d) == {i \in 1..Len(df_lineage) : df_lineage[i].date = d}

\* The lineages merged so far, as positions in AlignLineages.
MergedLineages == {unique_lineages(input)[j] : j \in 1..output.merged}

\* C13: in the table of get_strains_world and of get_states_strains the value
\* of a lineage column in the row of spine date D is the value computed for the
\* lineage's point dated D, and null when the lineage has no point dated D.
C13_ValueOfTheSameDate ==
    applied \in {"get_strains_world", "get_states_strains"} =>
        \A k \in MergedLineages :
          \A i \in 1..Len(output.location_strains_df.rows) :
            LET row == output.location_strains_df.rows[i]
                at == PointsAt(input[k], row.Date)
                cell == row.v[prevalence_gaussian5(AlignLineages[k])]
            IN  IF at = {}
                  THEN cell = None
                  ELSE \E j \in at : cell = smoothed_prevalence(input[k])[j]

\* C14: after merging any number of lineage series of unique dates the table
\* has exactly one row per spine date, in spine order, whatever the dates of the
\* lineages' points.
C14_OneRowPerSpineDate ==
    applied \in {"get_strains_world", "get_states_strains"} =>
        LET rows == output.location_strains_df.rows
        IN  /\ Len(rows) = SpineDays
            /\ \A i \in 1..Len(rows) : rows[i].Date = date_range(1, SpineDays)[i]

\* Two lineages merged, one of them with a point before and a point after the
\* spine and without a point for some spine date.
C14_Witness ==
    /\ applied \in {"get_strains_world", "get_states_strains"}
    /\ output.merged = 2
    /\ \E k \in MergedLineages :
          /\ PointsAt(input[k], 0) # {}
          /\ PointsAt(input[k], SpineDays + 1) # {}
          /\ PointsAt(input[k], 2) = {}

(***************************************************************************)
(* The lineage aggregator: claims C15 and C16                              *)
(***************************************************************************)
Families == {"Alpha", "Beta", "Gamma", "Delta"}

\* The columns of a table that the rule of a family selects.
FamilyColumns(family, columns) ==
    CASE family = "Alpha" -> {alpha_name} \cap columns
      [] family = "Beta" -> beta_names(columns)
      [] family = "Gamma" -> gamma_names(columns)
      [] family = "Delta" -> delta_names(columns) \cap columns

VariantApplied == applied = "get_variant_data"

\* C15: when the wide table has no column that the rule of a family selects,
\* get_variant_data does not raise and the family's column is 0 in every row.
C15_NoColumnGivesZero ==
    VariantApplied =>
        \A family \in Families :
            FamilyColumns(family, input.columns) = {} =>
                /\ output.raised = "none"
                /\ \A i \in 1..Len(output.value) : output.value[i][family] = Zero

\* C16: in the table get_variant_data returns, the value of each family in each
\* row is the sum over the input row of the columns of the family with null
\* counted as 0, and the rows are those of the input, in order, with their Date
\* and CountryCode.
C16_FamilyValueIsTheRowSum ==
    (VariantApplied /\ output.raised = "none") =>
        /\ Len(output.value) = Len(input.rows)
        /\ \A i \in 1..Len(input.rows) :
              /\ output.value[i].Date.str = input.rows[i].Date
              /\ output.value[i].CountryCode = input.rows[i].CountryCode
              /\ \A family \in Families :
                    output.value[i][family] =
                        Num(SumOf(input.rows[i].v, FamilyColumns(family, input.columns)))

(***************************************************************************)
(* The series smoothers: claims C17, C18 and C19                           *)
(***************************************************************************)
\* daily[t] of a cumulative series, t counted from 1: 0 in the first row, the
\* difference to the previous count where both counts are present, and 0
\* where one of them is null.
Daily(c, t) ==
    IF t = 1 \/ c[t] = None \/ c[t - 1] = None THEN Zero
    ELSE Num(c[t].num - c[t - 1].num)

\* C17: daily_data_cases_deaths gives daily[0] = 0 and daily[t] = c[t] - c[t-1]
\* for every later row, for cases and for deaths, in a table of the rows of the
\* group.
C17_DailyIsTheDifference ==
    applied = "daily_data_cases_deaths" =>
        /\ Len(output) = Len(input)
        /\ \A t \in 1..Len(input) :
              /\ output[t].DailyCases = Daily(column(input, "ConfirmedCases"), t)
              /\ output[t].DailyDeaths = Daily(column(input, "ConfirmedDeaths"), t)
              /\ output[t].ConfirmedCases = input[t].ConfirmedCases
              /\ output[t].ConfirmedDeaths = input[t].ConfirmedDeaths

\* The cumulative cases 0, 1, 1 give the daily cases 0, 1, 0.
C17_Witness ==
    /\ applied = "daily_data_cases_deaths"
    /\ column(input, "ConfirmedCases") = <<Num(0), Num(1), Num(1)>>
    /\ column(output, "DailyCases") = <<Num(0), Num(1), Num(0)>>

\* The array passed to the sigma = 7 smoother for the cases and for the deaths.
SmootherInput(kind) ==
    IF applied = "smooth_cases_deaths"
      THEN IF kind = "cases" THEN output[1].SmoothDailyCases7.gaussian_filter1d
           ELSE output[1].SmoothDailyDeaths7.gaussian_filter1d
      ELSE IF kind = "cases" THEN output[1].Smooth7ConfirmedCases.gaussian_filter1d
           ELSE output[1].Smooth7ConfirmedDeaths.gaussian_filter1d

\* C18: in smooth_cases_deaths and in smooth_data the smoother's input is the
\* daily series: the differences of the cumulative counts, 0 in the first row.
C18_DiffBeforeSmoothing ==
    applied \in {"smooth_cases_deaths", "smooth_data"} =>
        /\ SmootherInput("cases") =
              [t \in 1..Len(input) |-> Daily(column(input, "ConfirmedCases"), t)]
        /\ SmootherInput("deaths") =
              [t \in 1..Len(input) |-> Daily(column(input, "ConfirmedDeaths"), t)]

\* The place of a date among the dates of a frame, in ascending order.
Rank(df, d) == Cardinality({i \in 1..Len(df) : df[i].date <= d})

\* The values of a frame in ascending date order, null replaced by 0.
AscendingFilled(df) ==
    [k \in 1..Len(df) |->
        LET row == df[CHOOSE i \in 1..Len(df) : Rank(df, df[i].date) = k]
        IN  IF row.prevalence = None THEN Zero ELSE row.prevalence]

\* C19: states_smooth returns as many rows as it was given; the smoother is
\* fed the values in ascending date order with null replaced by 0; the
\* smoothed value of a row is the one computed at the place of the row's date;
\* every input row is in the output with its value column unchanged.
C19_SmoothedByDate ==
    applied = "states_smooth" =>
        /\ Len(output) = Len(input)
        /\ \A i \in 1..Len(output) :
              /\ output[i].Smooth7.gaussian_filter1d = AscendingFilled(input)
              /\ output[i].Smooth7.at = Rank(input, output[i].date)
        /\ \A i \in 1..Len(input) :
              \E j \in 1..Len(output) :
                  /\ output[j].date = input[i].date
                  /\ output[j].prevalence = input[i].prevalence

\* A frame given in descending date order with a null in it.
C19_Witness ==
    /\ applied = "states_smooth"
    /\ Len(input) = MaxLen
    /\ \A i \in 1..(Len(input) - 1) : input[i].date > input[i + 1].date
    /\ \E i \in 1..Len(input) : input[i].prevalence = None

(***************************************************************************)
(* A push step and its download step: claim C21                            *)
(***************************************************************************)
\* The keys today's push step stored.
PushedToday == Stored(puts)

\* The download step in progress reads from the push step that returned, and
\* that push stored something.
DownloadOfTodaysPush ==
    /\ dstep # "none"
    /\ rpc # "idle"
    /\ ReturnedPush = PushOf(dstep, vidx)
    /\ PushedToday # {}

\* C21: a download step that follows a successful push of today by its push
\* step resolves the prefix under which that push wrote its keys; its resolver
\* returns after probing offset 0 only, and the listing it returns contains
\* the keys just pushed.
C21_DownloadFindsTodaysPush ==
    DownloadOfTodaysPush =>
        /\ \A k \in PushedToday : k.path = path
        /\ rpc = "returned" =>
              /\ probed = <<0>>
              /\ response # None
              /\ PushedToday \subseteq response.Contents

(***************************************************************************)
(* The lineage aggregator: claim C22                                       *)
(***************************************************************************)
\* The column selections of two different families share no column.
SelectionsDisjoint(columns) ==
    \A f \in Families, g \in Families :
        f # g => FamilyColumns(f, columns) \cap FamilyColumns(g, columns) = {}

\* The lineage a column is named after.
LineageOf(c) == SubSeq(c, Len(prevalence_gaussian5(<<>>)) + 1, Len(c))

\* Letters, digits and dots only: the lineage has no "_" in its name.
PangoForm(c) == ~Contains(LineageOf(c), <<"_">>)

\* get_variant_data made its selections and returned.
VariantReturned == VariantApplied /\ output.raised = "none"

\* C22 as stated: for every set of column names of the wide table, the
\* selections of get_variant_data for Alpha, Beta, Gamma and Delta are
\* pairwise disjoint.
C22_SelectionsDisjoint ==
    VariantReturned => SelectionsDisjoint(input.columns)

\* C22 amended: when every lineage of the wide table has a name without "_",
\* the selections of get_variant_data for Alpha, Beta, Gamma and Delta are
\* pairwise disjoint.
C22_PangoSelectionsDisjoint ==
    (VariantReturned /\ \A c \in input.columns : PangoForm(c)) =>
        SelectionsDisjoint(input.columns)

\* A table of Pango lineages in which every family selects a column, and
\* get_variant_data returned its totals.
C22_Witness ==
    /\ VariantReturned
    /\ Len(output.value) > 0
    /\ \A c \in input.columns : PangoForm(c)
    /\ \A f \in Families : FamilyColumns(f, input.columns) # {}
====
